---- MODULE Spec2Model ----
(***************************************************************************)
(* Authentication / authorization core of the task-tracking API:           *)
(* registration, login, bearer-token identity resolution, the active       *)
(* account gate and the ownership guard over tasks.                        *)
(*                                                                         *)
(* The database is the pair (users, tasks) of table rows.  One request is  *)
(* served at a time; a protected request walks through the dependency      *)
(* chain get_current_user -> get_current_active_user -> route handler as   *)
(* separate steps, so the order of the stages is visible in the states.    *)
(* The clock counts ticks, finer than the whole seconds a token's exp      *)
(* claim is written and compared in.                                       *)
(*                                                                         *)
(* Two further specifications share the definitions: SpecToken applies     *)
(* the token functions to drawn inputs at tick resolution, SpecHash the    *)
(* password functions; SpecReg runs registrations concurrently, each one   *)
(* split at the await between its existence check and its insert.          *)
(***************************************************************************)
EXTENDS Integers, Sequences, FiniteSets, TLC

VARIABLES users, tasks, nextTaskId, now, req, call, regs

\* call: the function call SpecToken and SpecHash look at
\* regs: the registrations in flight in SpecReg
aux == <<call, regs>>
vars == <<users, tasks, nextTaskId, now, req, call, regs>>

(* ------------------------------ bounds --------------------------------- *)
\* number of task rows ever inserted
MaxTasks == 2
\* clock ticks per second
TicksPerSecond == 2

(* ---------------------------- configuration ---------------------------- *)
SECRET_KEY == "k-configured"
ALGORITHM == "HS256"
ACCESS_TOKEN_EXPIRE_MINUTES == 30
\* timedelta(minutes=...)
SECONDS_PER_MINUTE == 60
\* bcrypt's input ceiling, the slice bound of get_password_hash
BCRYPT_MAX_BYTES == 72

(* ------------------------------ input sets ----------------------------- *)
None == "None"
Emails == {"a@x.com", "A@x.com"}
\* passwords are byte sequences
Passwords == {<<1, 2>>, <<1, 3>>}
Keys == {SECRET_KEY, "k-other"}
\* the default token lifetime in ticks
DefaultLifetime ==
    ACCESS_TOKEN_EXPIRE_MINUTES * SECONDS_PER_MINUTE * TicksPerSecond
\* server start, the expiry of a token issued at the start, and a second later
TimePoints == {0, DefaultLifetime, DefaultLifetime + TicksPerSecond}
TaskIds == 1..(MaxTasks + 1)
UserIds == 1..Cardinality(Emails)

Empty == [k \in {} |-> None]
\* raw JSON bodies of POST /tasks/ ; owner_id is not a field of TaskCreate
CreatePayloads ==
    {[title |-> "t1"]} \cup {[title |-> "t1", owner_id |-> o] : o \in UserIds}
\* raw JSON bodies of PATCH /tasks/{id} ; owner_id is not a field of TaskUpdate
UpdatePayloads ==
    {Empty, [status |-> "completed"]}
      \cup {[status |-> "completed", owner_id |-> o] : o \in UserIds}
SkipInputs == {0, 1}
LimitInputs == {1, 100}

(* ------------------------------ responses ------------------------------ *)
Response(code, detail, headers, body) ==
    [code |-> code, detail |-> detail, headers |-> headers, body |-> body]

NoResponse == Response(0, "", "", <<>>)

\* a service function either raises an HTTPException or returns a value
Raise(code, detail, headers) ==
    [exc |-> TRUE, code |-> code, detail |-> detail, headers |-> headers,
     value |-> <<>>]
Return(v) ==
    [exc |-> FALSE, code |-> 0, detail |-> "", headers |-> "", value |-> <<v>>]

\* what FastAPI sends for a raised HTTPException
ExceptionResponse(r) == Response(r.code, r.detail, r.headers, <<>>)

\* an exception that is no HTTPException and that no handler catches:
\* the server answers 500
UnhandledError == Raise(500, "Internal Server Error", "")

(* --------------------------- app/core/security ------------------------- *)
\* the prefix by which the CryptContext identifies a bcrypt hash
BCRYPT_IDENT == "$2b$"

\* bcrypt: the stored string carries the scheme's prefix, the salt and the
\* digest of the secret
bcrypt_hash(secret, salt) ==
    [ident |-> BCRYPT_IDENT, salt |-> salt, digest |-> secret]

\* stored strings that are no bcrypt hash: one without the prefix (empty,
\* plain text, another scheme) and one with the prefix and no parsable rest
MalformedHashes ==
    {[ident |-> "", salt |-> 0, digest |-> <<>>],
     [ident |-> BCRYPT_IDENT, salt |-> 0, digest |-> <<>>]}

\* what the installed bcrypt backend does with a secret above its ceiling:
\* it ignores the bytes beyond it, or it raises ValueError
Backends == {"truncates", "rejects"}

get_password_hash(password, salt) ==
    LET password_bytes == password
        truncated_password_bytes ==
            SubSeq(password_bytes, 1,
                   IF Len(password_bytes) < BCRYPT_MAX_BYTES
                   THEN Len(password_bytes) ELSE BCRYPT_MAX_BYTES)
    IN bcrypt_hash(truncated_password_bytes, salt)

\* pwd_context.verify: UnknownHashError for a string of no known scheme,
\* ValueError for a malformed bcrypt string, then the backend's digest of
\* plain_password, which is handed over as it came, under the stored salt
verify_password(plain_password, hashed_password, backend) ==
    IF hashed_password.ident # BCRYPT_IDENT THEN UnhandledError
    ELSE IF hashed_password.salt = 0 THEN UnhandledError
    ELSE IF Len(plain_password) > BCRYPT_MAX_BYTES
    THEN IF backend = "rejects" THEN UnhandledError
         ELSE Return(bcrypt_hash(SubSeq(plain_password, 1, BCRYPT_MAX_BYTES),
                                 hashed_password.salt) = hashed_password)
    ELSE Return(bcrypt_hash(plain_password, hashed_password.salt)
                  = hashed_password)

MalformedToken ==
    [wellformed |-> FALSE, sub |-> None, exp |-> 0, key |-> "", alg |-> ""]
NoToken == MalformedToken

\* jose writes and reads times as whole seconds: timegm(d.utctimetuple())
Seconds(t) == t \div TicksPerSecond

\* expires_delta in ticks, 0 for None (a zero timedelta is falsy as well)
create_access_token(sub, expires_delta, t) ==
    LET expire == IF expires_delta # 0
                  THEN t + expires_delta
                  ELSE t + DefaultLifetime
    IN [wellformed |-> TRUE, sub |-> sub, exp |-> Seconds(expire),
        key |-> SECRET_KEY, alg |-> ALGORITHM]

\* variant: a token is expired from the second of its exp claim on
decode_access_token_ExpInclusive(token, t) ==
    IF ~token.wellformed THEN None
    ELSE IF token.alg # ALGORITHM THEN None
    ELSE IF token.key # SECRET_KEY THEN None
    ELSE IF token.exp <= Seconds(t) THEN None
    ELSE token.sub

\* variant: the signature is not verified
decode_access_token_NoSignature(token, t) ==
    IF ~token.wellformed THEN None
    ELSE IF token.alg # ALGORITHM THEN None
    ELSE IF token.exp < Seconds(t) THEN None
    ELSE token.sub

\* jose's jwt.decode: structure, algorithm, signature, then the exp claim
\* (expired when exp < now, both in whole seconds); any JWTError gives None
decode_access_token(token, t) ==
    IF ~token.wellformed THEN None
    ELSE IF token.alg # ALGORITHM THEN None
    ELSE IF token.key # SECRET_KEY THEN None
    ELSE IF token.exp < Seconds(t) THEN None
    ELSE token.sub

(* ------------------------ app/services/user_service -------------------- *)
NoUser == [id |-> 0, email |-> None,
           hashed_password |-> bcrypt_hash(<<>>, 0), is_active |-> FALSE]

get_user_by_email(us, email) ==
    LET rows == {u \in us : u.email = email}
    IN IF rows = {} THEN NoUser ELSE CHOOSE u \in rows : TRUE

\* a fresh salt for every hash (bcrypt draws it at random)
FreshSalt(us) == Cardinality(us) + 1

\* variant: a duplicate registration rewrites the stored hash before failing
create_user_Rehash(us, user_in) ==
    LET existing_user == get_user_by_email(us, user_in.email)
        hashed_password == get_password_hash(user_in.password, FreshSalt(us))
        db_user == [id |-> Cardinality(us) + 1,
                    email |-> user_in.email,
                    hashed_password |-> hashed_password,
                    is_active |-> TRUE]
    IN IF existing_user # NoUser
       THEN [users |-> (us \ {existing_user}) \cup
                         {[existing_user EXCEPT
                              !.hashed_password = hashed_password]},
             result |-> Raise(409, "A user with this email already exists.", "")]
       ELSE [users |-> us \cup {db_user}, result |-> Return(db_user)]

create_user(us, user_in) ==
    LET existing_user == get_user_by_email(us, user_in.email)
        db_user == [id |-> Cardinality(us) + 1,
                    email |-> user_in.email,
                    hashed_password |->
                        get_password_hash(user_in.password, FreshSalt(us)),
                    is_active |-> TRUE]
    IN IF existing_user # NoUser
       THEN [users |-> us,
             result |-> Raise(409, "A user with this email already exists.", "")]
       ELSE [users |-> us \cup {db_user}, result |-> Return(db_user)]

UserRead(u) == [id |-> u.id, email |-> u.email, is_active |-> u.is_active]

(* ------------------------ app/services/task_service -------------------- *)
TaskCreate(payload) ==
    [title |-> payload.title,
     description |-> IF "description" \in DOMAIN payload
                     THEN payload.description ELSE None,
     status |-> IF "status" \in DOMAIN payload
                THEN payload.status ELSE "pending"]

TaskUpdateFields == {"title", "description", "status"}

\* variant: undeclared fields of the body are kept
TaskUpdate_AllowExtra(payload) == payload

\* TaskUpdate(...).model_dump(exclude_unset=True): the declared fields sent
TaskUpdate(payload) ==
    [k \in (DOMAIN payload) \cap TaskUpdateFields |-> payload[k]]

create_task_for_user(ts, nid, task_in, owner) ==
    LET db_task == [id |-> nid,
                    title |-> task_in.title,
                    description |-> task_in.description,
                    status |-> task_in.status,
                    owner_id |-> owner.id]
    IN [tasks |-> ts \cup {db_task}, result |-> Return(db_task)]

\* variant: fetch by id, then compare the owner and answer 403
get_task_for_user_Forbidden(ts, task_id, owner) ==
    LET rows == {t \in ts : t.id = task_id}
    IN IF rows = {}
       THEN Raise(404, "Task not found", "")
       ELSE LET task == CHOOSE t \in rows : TRUE
            IN IF task.owner_id # owner.id
               THEN Raise(403, "Not enough permissions", "")
               ELSE Return(task)

\* variant: the lookup filters on the id alone
get_task_for_user_ById(ts, task_id, owner) ==
    LET rows == {t \in ts : t.id = task_id}
    IN IF rows = {}
       THEN Raise(404, "Task not found", "")
       ELSE Return(CHOOSE t \in rows : TRUE)

get_task_for_user(ts, task_id, owner) ==
    LET rows == {t \in ts : t.id = task_id /\ t.owner_id = owner.id}
    IN IF rows = {}
       THEN Raise(404, "Task not found", "")
       ELSE Return(CHOOSE t \in rows : TRUE)

update_task_for_user(ts, task_id, update_data, owner) ==
    LET found == get_task_for_user(ts, task_id, owner)
    IN IF found.exc
       THEN [tasks |-> ts, result |-> found]
       ELSE LET db_task == found.value[1]
                updated == [k \in DOMAIN db_task |->
                              IF k \in DOMAIN update_data
                              THEN update_data[k] ELSE db_task[k]]
            IN [tasks |-> (ts \ {db_task}) \cup {updated},
                result |-> Return(updated)]

\* variant: the row is deleted by id before the owner is looked at
delete_task_for_user_ById(ts, task_id, owner) ==
    LET found == get_task_for_user(ts, task_id, owner)
    IN IF found.exc
       THEN [tasks |-> {t \in ts : t.id # task_id}, result |-> found]
       ELSE [tasks |-> ts \ {found.value[1]},
             result |-> Return([ok |-> TRUE])]

delete_task_for_user(ts, task_id, owner) ==
    LET found == get_task_for_user(ts, task_id, owner)
    IN IF found.exc
       THEN [tasks |-> ts, result |-> found]
       ELSE [tasks |-> ts \ {found.value[1]},
             result |-> Return([ok |-> TRUE])]

\* variant: the statement has no WHERE clause
OwnedRows_All(ts, owner) == ts

\* select(Task).where(Task.owner_id == owner.id)
OwnedRows(ts, owner) == {t \in ts : t.owner_id = owner.id}

\* the selected rows in some order (there is no ORDER BY), then OFFSET skip
\* LIMIT limit
Orderings(S) ==
    {s \in [1..Cardinality(S) -> S] :
        \A i, j \in 1..Cardinality(S) : i # j => s[i] # s[j]}

OffsetLimit(s, skip, limit) ==
    SubSeq(s, skip + 1, IF skip + limit < Len(s) THEN skip + limit ELSE Len(s))

get_tasks_for_user(ts, owner, skip, limit, order) ==
    OffsetLimit(order, skip, limit)

(* ------------------------------ the request ---------------------------- *)
\* stage follows the request-scoped state machine; token and email are what
\* get_current_user holds, current_user what it hands to the later stages
\* payload is the body or form the route received
Request(stage, op, token, email, current_user, task_id, payload, resp) ==
    [stage |-> stage, op |-> op, token |-> token, email |-> email,
     current_user |-> current_user, task_id |-> task_id, payload |-> payload,
     resp |-> resp]

InFlightStages == {"TokenPresent", "TokenValidated", "Authenticated", "Authorized"}
AnsweredStages == {"Responded", "TokenRejected", "Unauthenticated", "Forbidden",
                   "Granted", "NotFound"}
NoRequest == Request("NoCredentials", "", NoToken, None, NoUser, 0, Empty,
                     NoResponse)
Idle == req = NoRequest

\* exp claims: a second ago, this second, a default lifetime ahead
ExpInputs(t) ==
    {e \in {Seconds(t) - 1, Seconds(t), Seconds(t + DefaultLifetime)} : e >= 0}

TokenInputs(t) ==
    {MalformedToken}
      \cup [wellformed : {TRUE}, sub : Emails \cup {None}, exp : ExpInputs(t),
            key : Keys, alg : {ALGORITHM}]

CredentialsException ==
    Raise(401, "Could not validate credentials", "Bearer")

NoCall == [fn |-> ""]
NoRegs == [p \in {} |-> None]

Init ==
    /\ users = {}
    /\ tasks = {}
    /\ nextTaskId = 1
    /\ now = 0
    /\ req = NoRequest
    /\ call = NoCall
    /\ regs = NoRegs

(* ------------------------------ environment ---------------------------- *)
Tick ==
    /\ Idle
    /\ \E t \in TimePoints : t > now /\ now' = t
    /\ UNCHANGED <<users, tasks, nextTaskId, req, aux>>

\* account management outside the core flips is_active
SetActive ==
    /\ Idle
    /\ \E u \in users, b \in BOOLEAN :
          /\ u.is_active # b
          /\ users' = (users \ {u}) \cup {[u EXCEPT !.is_active = b]}
    /\ UNCHANGED <<tasks, nextTaskId, now, req, aux>>

(* ------------------------------ app/database --------------------------- *)
\* get_session: the response is out, the session is closed, and nothing of
\* the request survives but the rows
CloseSession ==
    /\ req.stage \in AnsweredStages
    /\ req' = NoRequest
    /\ UNCHANGED <<users, tasks, nextTaskId, now, aux>>

(* ------------------------------ app/routers/auth ----------------------- *)
\* POST /auth/register with a password of the set Pw
RegisterWith(Pw) ==
    /\ Idle
    /\ \E email \in Emails, password \in Pw :
          LET user_in == [email |-> email, password |-> password]
              r == create_user(users, user_in)
          IN /\ users' = r.users
             /\ req' = Request("Responded", "register", NoToken, None, NoUser, 0,
                         user_in,
                         IF r.result.exc
                         THEN ExceptionResponse(r.result)
                         ELSE Response(201, "", "",
                                       <<UserRead(r.result.value[1])>>))
    /\ UNCHANGED <<tasks, nextTaskId, now, aux>>

register_user == RegisterWith(Passwords)

\* POST /auth/token with a password of the set Pw
LoginWith(Pw) ==
    /\ Idle
    /\ \E username \in Emails, password \in Pw, backend \in Backends :
          LET user == get_user_by_email(users, username)
              verified == verify_password(password, user.hashed_password,
                                          backend)
          IN req' = Request("Responded", "login", NoToken, None, NoUser, 0,
                      [username |-> username, password |-> password],
                      IF user = NoUser
                      THEN Response(401, "Incorrect email or password",
                                    "Bearer", <<>>)
                      ELSE IF verified.exc
                      THEN ExceptionResponse(verified)
                      ELSE IF ~verified.value[1]
                      THEN Response(401, "Incorrect email or password",
                                    "Bearer", <<>>)
                      ELSE Response(200, "", "",
                             <<[access_token |->
                                   create_access_token(user.email, 0, now),
                                token_type |-> "bearer"]>>))
    /\ UNCHANGED <<users, tasks, nextTaskId, now, aux>>

login_for_access_token == LoginWith(Passwords)

(* --------------------------- app/core/dependencies --------------------- *)
\* reusable_oauth2 hands the bearer token of a protected request over
ReceiveToken ==
    /\ Idle
    /\ \E token \in TokenInputs(now) :
          req' = Request("TokenPresent", "", token, None, NoUser, 0, Empty,
                        NoResponse)
    /\ UNCHANGED <<users, tasks, nextTaskId, now, aux>>

\* get_current_user, first stage: decode_access_token
ValidateToken ==
    /\ req.stage = "TokenPresent"
    /\ LET email == decode_access_token(req.token, now)
       IN IF email = None
          THEN req' = [req EXCEPT !.stage = "TokenRejected",
                         !.resp = ExceptionResponse(CredentialsException)]
          ELSE req' = [req EXCEPT !.stage = "TokenValidated", !.email = email]
    /\ UNCHANGED <<users, tasks, nextTaskId, now, aux>>

\* variant: an unknown subject is reported as a missing user
LookupAccount_UserNotFound ==
    /\ req.stage = "TokenValidated"
    /\ LET user == get_user_by_email(users, req.email)
       IN IF user = NoUser
          THEN req' = [req EXCEPT !.stage = "Unauthenticated",
                         !.resp = Response(404, "User not found", "", <<>>)]
          ELSE req' = [req EXCEPT !.stage = "Authenticated",
                         !.token = NoToken, !.email = None,
                         !.current_user = user]
    /\ UNCHANGED <<users, tasks, nextTaskId, now, aux>>

\* get_current_user, second stage: get_user_by_email
LookupAccount ==
    /\ req.stage = "TokenValidated"
    /\ LET user == get_user_by_email(users, req.email)
       IN IF user = NoUser
          THEN req' = [req EXCEPT !.stage = "Unauthenticated",
                         !.resp = ExceptionResponse(CredentialsException)]
          ELSE req' = [req EXCEPT !.stage = "Authenticated",
                         !.token = NoToken, !.email = None,
                         !.current_user = user]
    /\ UNCHANGED <<users, tasks, nextTaskId, now, aux>>

\* variant: the is_active flag is not looked at
get_current_active_user_NoCheck ==
    /\ req.stage = "Authenticated"
    /\ req' = [req EXCEPT !.stage = "Authorized"]
    /\ UNCHANGED <<users, tasks, nextTaskId, now, aux>>

get_current_active_user ==
    /\ req.stage = "Authenticated"
    /\ IF ~req.current_user.is_active
       THEN req' = [req EXCEPT !.stage = "Forbidden",
                      !.resp = Response(403, "Inactive user", "", <<>>)]
       ELSE req' = [req EXCEPT !.stage = "Authorized"]
    /\ UNCHANGED <<users, tasks, nextTaskId, now, aux>>

(* ------------------------------ app/routers/tasks ---------------------- *)
\* the route handlers run with the account the dependency chain resolved
Respond(op, task_id, payload, result, code, body) ==
    req' = [req EXCEPT
              !.op = op,
              !.task_id = task_id,
              !.payload = payload,
              !.stage = IF result.exc THEN "NotFound" ELSE "Granted",
              !.resp = IF result.exc THEN ExceptionResponse(result)
                       ELSE Response(code, "", "", body)]

create_task ==
    /\ req.stage = "Authorized"
    /\ nextTaskId <= MaxTasks
    /\ \E payload \in CreatePayloads :
          LET r == create_task_for_user(tasks, nextTaskId, TaskCreate(payload),
                                        req.current_user)
          IN /\ tasks' = r.tasks
             /\ nextTaskId' = nextTaskId + 1
             /\ Respond("create_task", 0, payload, r.result, 201, r.result.value)
    /\ UNCHANGED <<users, now, aux>>

read_tasks ==
    /\ req.stage = "Authorized"
    /\ \E skip \in SkipInputs, limit \in LimitInputs :
       \E order \in Orderings(OwnedRows(tasks, req.current_user)) :
          Respond("read_tasks", 0, [skip |-> skip, limit |-> limit],
                  Return(<<>>), 200,
                  get_tasks_for_user(tasks, req.current_user, skip, limit, order))
    /\ UNCHANGED <<users, tasks, nextTaskId, now, aux>>

read_task ==
    /\ req.stage = "Authorized"
    /\ \E task_id \in TaskIds :
          LET result == get_task_for_user(tasks, task_id, req.current_user)
          IN Respond("read_task", task_id, Empty, result, 200, result.value)
    /\ UNCHANGED <<users, tasks, nextTaskId, now, aux>>

update_task ==
    /\ req.stage = "Authorized"
    /\ \E task_id \in TaskIds, payload \in UpdatePayloads :
          LET r == update_task_for_user(tasks, task_id, TaskUpdate(payload),
                                        req.current_user)
          IN /\ tasks' = r.tasks
             /\ Respond("update_task", task_id, payload, r.result, 200,
                        r.result.value)
    /\ UNCHANGED <<users, nextTaskId, now, aux>>

delete_task ==
    /\ req.stage = "Authorized"
    /\ \E task_id \in TaskIds :
          LET r == delete_task_for_user(tasks, task_id, req.current_user)
          IN /\ tasks' = r.tasks
             /\ Respond("delete_task", task_id, Empty, r.result, 204, <<>>)
    /\ UNCHANGED <<users, nextTaskId, now, aux>>

(* ------------------------------ app/routers/agent ---------------------- *)
\* variant: the route depends on get_current_user instead of the active gate
agent_run_AuthenticatedOnly ==
    /\ req.stage \in {"Authenticated", "Authorized"}
    /\ Respond("agent_run", 0, Empty, Return(<<>>), 200, <<>>)
    /\ UNCHANGED <<users, tasks, nextTaskId, now, aux>>

agent_run ==
    /\ req.stage = "Authorized"
    /\ Respond("agent_run", 0, Empty, Return(<<>>), 200, <<>>)
    /\ UNCHANGED <<users, tasks, nextTaskId, now, aux>>

Next ==
    \/ Tick
    \/ SetActive
    \/ register_user
    \/ login_for_access_token
    \/ ReceiveToken
    \/ ValidateToken
    \/ LookupAccount
    \/ get_current_active_user
    \/ create_task
    \/ read_tasks
    \/ read_task
    \/ update_task
    \/ delete_task
    \/ agent_run
    \/ CloseSession

Spec == Init /\ [][Next]_vars

(* ------------------------------ properties ----------------------------- *)
TaskNotFound == Response(404, "Task not found", "", <<>>)
Finished == req.stage \in {"Granted", "NotFound"}

\* C1: a task is fetched by its owner and by nobody else: for every account
\* u and every stored task t, get_task_for_user returns t when u owns it and
\* raises 404 otherwise, and a finished GET /tasks/{id} answers accordingly.
C1_OwnershipRead ==
    /\ \A u \in users, t \in tasks :
          get_task_for_user(tasks, t.id, u) =
              IF t.owner_id = u.id THEN Return(t)
              ELSE Raise(404, "Task not found", "")
    /\ (Finished /\ req.op = "read_task") =>
          \A t \in tasks : t.id = req.task_id =>
              IF t.owner_id = req.current_user.id
              THEN req.stage = "Granted" /\ req.resp = Response(200, "", "", <<t>>)
              ELSE req.stage = "NotFound" /\ req.resp = TaskNotFound

\* account B has just been refused the existing task of account A
C1_Witness ==
    /\ req.op = "read_task" /\ req.stage = "NotFound"
    /\ req.current_user \in users
    /\ \E t \in tasks, a \in users :
          /\ t.id = req.task_id /\ t.owner_id = a.id
          /\ a.id # req.current_user.id

\* C2: an update or delete of a task by a caller who is not its owner fails
\* with 404 and leaves the task table exactly as it was.
C2_OwnershipWrite ==
    [][(req.stage = "Authorized" /\ req'.op \in {"update_task", "delete_task"})
         => \A t \in tasks :
               (t.id = req'.task_id /\ t.owner_id # req.current_user.id)
                 => /\ req'.stage = "NotFound"
                    /\ req'.resp = TaskNotFound
                    /\ t \in tasks'
                    /\ tasks' = tasks]_vars

\* a non-owner's PATCH carrying fields was refused and the task is still there
C2_Witness ==
    /\ req.op = "update_task" /\ req.stage = "NotFound"
    /\ "status" \in DOMAIN req.payload
    /\ \E t \in tasks :
          /\ t.id = req.task_id /\ t.owner_id # req.current_user.id
          /\ t.status = "pending"

\* C3: "exists but not yours" cannot be told from "does not exist": for every
\* account u and every task t of another account, read, update and delete of
\* t.id by u give the same result, and the same absence of change, in the
\* current table and in the table without t; that result is 404 'Task not
\* found', and no stage of a request ever answers an ownership failure 403.
C3_NotFoundIndistinguishable ==
    /\ \A u \in users, t \in tasks :
          t.owner_id # u.id =>
            LET without == tasks \ {t}
                absent == Raise(404, "Task not found", "")
            IN /\ get_task_for_user(tasks, t.id, u) = absent
               /\ get_task_for_user(without, t.id, u) = absent
               /\ \A p \in UpdatePayloads :
                     /\ update_task_for_user(tasks, t.id, TaskUpdate(p), u)
                          = [tasks |-> tasks, result |-> absent]
                     /\ update_task_for_user(without, t.id, TaskUpdate(p), u)
                          = [tasks |-> without, result |-> absent]
               /\ delete_task_for_user(tasks, t.id, u)
                    = [tasks |-> tasks, result |-> absent]
               /\ delete_task_for_user(without, t.id, u)
                    = [tasks |-> without, result |-> absent]
    /\ (/\ Finished
        /\ req.op \in {"read_task", "update_task", "delete_task"}
        /\ ~(req.op = "delete_task" /\ req.stage = "Granted")
        /\ \A t \in tasks :
              t.id = req.task_id => t.owner_id # req.current_user.id)
         => req.stage = "NotFound" /\ req.resp = TaskNotFound
    /\ (req.stage = "NotFound" => req.resp = TaskNotFound)

\* a DELETE of another account's existing task was answered 404
C3_Witness ==
    /\ req.op = "delete_task" /\ req.stage = "NotFound"
    /\ req.resp = TaskNotFound
    /\ \E t \in tasks : t.id = req.task_id /\ t.owner_id # req.current_user.id

TaskIdsOf(ts) == {t.id : t \in ts}

\* C4: a task row appears only by a create step of an authorized request and
\* carries the id of that request's account as owner_id, whatever owner_id the
\* body names; no step changes the owner_id of a stored task.
C4_OwnerStamped ==
    [][/\ \A t2 \in tasks' :
            t2.id \notin TaskIdsOf(tasks) =>
              /\ req.stage = "Authorized" /\ req'.op = "create_task"
              /\ req.current_user \in users
              /\ t2.owner_id = req.current_user.id
       /\ \A t \in tasks, t2 \in tasks' :
            t.id = t2.id => t2.owner_id = t.owner_id]_vars

\* a PATCH naming another account as owner_id went through and the task still
\* belongs to the caller
C4_Witness ==
    /\ req.op = "update_task" /\ req.stage = "Granted"
    /\ "owner_id" \in DOMAIN req.payload
    /\ req.payload.owner_id # req.current_user.id
    /\ \E t \in tasks :
          /\ t.id = req.task_id /\ t.owner_id = req.current_user.id
          /\ t.status = "completed"

CredentialsResponse == ExceptionResponse(CredentialsException)

\* C5: identity resolution answers a correctly signed, unexpired token of an
\* unknown subject exactly as it answers a token that fails validation: 401
\* 'Could not validate credentials' with the Bearer challenge.
C5_UnknownSubjectAsInvalid ==
    [][/\ req.stage = "TokenPresent" =>
            IF decode_access_token(req.token, now) = None
            THEN req'.stage = "TokenRejected" /\ req'.resp = CredentialsResponse
            ELSE req'.stage = "TokenValidated" /\ req'.resp = NoResponse
       /\ req.stage = "TokenValidated" =>
            IF \E u \in users : u.email = decode_access_token(req.token, now)
            THEN /\ req'.stage = "Authenticated"
                 /\ req'.current_user \in users
                 /\ req'.current_user.email
                      = decode_access_token(req.token, now)
            ELSE req'.stage = "Unauthenticated"
                   /\ req'.resp = CredentialsResponse
       /\ req'.stage \in {"TokenRejected", "Unauthenticated"} =>
            req'.resp = CredentialsResponse]_vars

\* a token signed with the configured key, not expired, naming no account
C5_Witness ==
    /\ req.stage = "Unauthenticated"
    /\ req.token.key = SECRET_KEY /\ req.token.exp >= Seconds(now)
    /\ req.token.sub \in Emails
    /\ ~\E u \in users : u.email = req.token.sub
    /\ req.resp.code = 401

InactiveResponse == Response(403, "Inactive user", "", <<>>)

\* C6: whenever the active gate runs on a resolved account, the request is
\* refused with 403 'Inactive user' if the account's is_active is false in the
\* database at that moment, and otherwise goes on with the same account; a
\* request is past the gate only for an account that is active.
C6_InactiveForbidden ==
    [][/\ req.stage = "Authenticated" =>
            LET account == get_user_by_email(users, req.current_user.email)
            IN /\ account = req.current_user
               /\ IF ~account.is_active
                  THEN /\ req'.stage = "Forbidden"
                       /\ req'.resp = InactiveResponse
                       /\ tasks' = tasks
                  ELSE /\ req'.stage = "Authorized"
                       /\ req'.current_user = account
                       /\ req'.resp = NoResponse
       /\ (req' # req /\ req'.stage \in {"Authorized", "Granted", "NotFound"}) =>
            /\ req'.current_user \in users'
            /\ req'.current_user.is_active]_vars

\* an account deactivated after registration was resolved and then refused
C6_Witness ==
    /\ req.stage = "Forbidden"
    /\ req.resp = InactiveResponse
    /\ req.current_user \in users
    /\ ~req.current_user.is_active

ProtectedOps == {"create_task", "read_tasks", "read_task", "update_task",
                 "delete_task", "agent_run"}
OwnedOps == {"read_task", "update_task", "delete_task"}

\* the stage a request is in before it can be in a given stage
Before(stage) ==
    CASE stage \in {"TokenValidated", "TokenRejected"} -> "TokenPresent"
      [] stage \in {"Authenticated", "Unauthenticated"} -> "TokenValidated"
      [] stage \in {"Authorized", "Forbidden"} -> "Authenticated"
      [] stage \in {"Granted", "NotFound"} -> "Authorized"
      [] OTHER -> "None"

\* C7: a protected request passes token validation, account lookup, active
\* check and ownership check in this order, one stage per step; it stops at
\* the first failing stage with 401, 401, 403 or 404 respectively; a route
\* handler runs, and the task table changes, only after the first three
\* stages have passed; a failing stage changes nothing in the database.
C7_StageOrder ==
    [][/\ (req' # req /\ Before(req'.stage) # "None") =>
            req.stage = Before(req'.stage)
       /\ (req.stage \in InFlightStages /\ req' # req) =>
            Before(req'.stage) = req.stage
       /\ req'.stage = "TokenRejected" => req'.resp.code = 401
       /\ req'.stage = "Unauthenticated" => req'.resp.code = 401
       /\ req'.stage = "Forbidden" => req'.resp.code = 403
       /\ req'.stage = "NotFound" =>
            req'.resp.code = 404 /\ req'.op \in OwnedOps
       /\ (req' # req /\ req'.stage \in {"TokenRejected", "Unauthenticated",
                                         "Forbidden", "NotFound"})
            => tasks' = tasks /\ users' = users
       /\ (tasks' # tasks \/ (req' # req /\ req'.op \in ProtectedOps)) =>
            /\ req.stage = "Authorized"
            /\ req.current_user \in users /\ req.current_user.is_active
       /\ req'.stage = "TokenValidated" =>
            decode_access_token(req'.token, now') = req'.email
       /\ req'.stage = "Authenticated" =>
            req'.current_user \in users' /\ req'.current_user.email = req.email
       /\ (req' # req /\ req'.stage = "Granted" /\ req'.op \in OwnedOps) =>
            \E t \in tasks :
               t.id = req'.task_id /\ t.owner_id = req.current_user.id]_vars

\* a request went through all four stages and deleted the caller's task
C7_Witness ==
    /\ req.stage = "Granted" /\ req.op = "delete_task"
    /\ req.resp.code = 204
    /\ req.task_id \notin TaskIdsOf(tasks)
    /\ req.current_user \in users

\* the password verifies against the stored hash on every backend
PasswordMatches(plain_password, hashed_password) ==
    \A backend \in Backends :
       verify_password(plain_password, hashed_password, backend) = Return(TRUE)

\* C8: a registration with an email that an account already has is answered
\* 409, adds no account and leaves every stored account (id, email,
\* hashed_password, is_active) as it was.
C8_DuplicateRegistration ==
    [][(req' # req /\ req'.stage = "Responded" /\ req'.op = "register"
          /\ \E u \in users : u.email = req'.payload.email)
         => /\ req'.resp =
                 Response(409, "A user with this email already exists.", "", <<>>)
            /\ users' = users]_vars

\* a second registration of a stored email, with another password, was refused
C8_Witness ==
    /\ req.op = "register" /\ req.resp.code = 409
    /\ \E u \in users :
          /\ u.email = req.payload.email
          /\ ~PasswordMatches(req.payload.password, u.hashed_password)

LoginFailure == Response(401, "Incorrect email or password", "Bearer", <<>>)

\* C9: a login for an email without account and a login with a wrong password
\* get the same 401 'Incorrect email or password', for every password; a
\* token, for the account's email and signed with the configured key, is
\* returned only when an account has the email and the password verifies
\* against its hash, and every other login gets that 401.
C9_LoginNoEnumeration ==
    (req.stage = "Responded" /\ req.op = "login") =>
       IF req.resp.code = 200
       THEN /\ req.resp.body[1].token_type = "bearer"
            /\ req.resp.body[1].access_token.sub = req.payload.username
            /\ req.resp.body[1].access_token.key = SECRET_KEY
            /\ \E u \in users :
                  /\ u.email = req.payload.username
                  /\ \E backend \in Backends :
                        verify_password(req.payload.password,
                                        u.hashed_password, backend)
                          = Return(TRUE)
       ELSE req.resp = LoginFailure

\* letter case folded
CaseFold(email) == IF email = "A@x.com" THEN "a@x.com" ELSE email

\* C10: no two accounts have emails that are equal ignoring letter case, and
\* get_user_by_email finds an account under every letter case of its email.
C10_CaseInsensitiveEmail ==
    /\ \A u1, u2 \in users :
          CaseFold(u1.email) = CaseFold(u2.email) => u1 = u2
    /\ \A u \in users, e \in Emails :
          CaseFold(e) = CaseFold(u.email) => get_user_by_email(users, e) = u

\* C11: a token is accepted only while its exp lies strictly ahead of the
\* server time: whenever decode_access_token returns a subject, the token is
\* signed with the configured key and algorithm and now < exp, so that a
\* token whose exp equals the server time is refused.
C11_StrictExpiry ==
    /\ (/\ req.stage = "TokenPresent"
        /\ decode_access_token(req.token, now) # None)
          => /\ req.token.key = SECRET_KEY /\ req.token.alg = ALGORITHM
             /\ Seconds(now) < req.token.exp
    /\ req.stage = "TokenValidated" => Seconds(now) < req.token.exp

\* C14: a token signed with a key other than the configured one is refused by
\* decode_access_token whatever its subject and expiry, and the request that
\* carries it ends in 401 without an account being resolved.
C14_ForeignKeyRefused ==
    [][(req.stage = "TokenPresent" /\ req.token.key # SECRET_KEY) =>
          /\ decode_access_token(req.token, now) = None
          /\ req'.stage = "TokenRejected"
          /\ req'.resp = CredentialsResponse
          /\ req'.current_user = NoUser]_vars

\* a token naming a registered account, not expired, signed with another key,
\* was refused
C14_Witness ==
    /\ req.stage = "TokenRejected"
    /\ req.token.wellformed /\ req.token.key # SECRET_KEY
    /\ req.token.exp > Seconds(now)
    /\ \E u \in users : u.email = req.token.sub

SeqToSet(s) == {s[i] : i \in 1..Len(s)}

\* C18: the list GET /tasks/ returns holds only stored tasks of the caller,
\* none twice; with skip 0 and a limit not below the number of the caller's
\* tasks it holds every stored task of the caller.
C18_ListOwnTasks ==
    (req.stage = "Granted" /\ req.op = "read_tasks") =>
       LET body == req.resp.body
           own == {t \in tasks : t.owner_id = req.current_user.id}
       IN /\ req.resp.code = 200
          /\ SeqToSet(body) \subseteq own
          /\ Cardinality(SeqToSet(body)) = Len(body)
          /\ (req.payload.skip = 0 /\ req.payload.limit >= Cardinality(own))
                => SeqToSet(body) = own

\* a full listing of the caller's one task was returned while another
\* account has a task too
C18_Witness ==
    /\ req.stage = "Granted" /\ req.op = "read_tasks"
    /\ req.payload.skip = 0 /\ req.payload.limit >= MaxTasks
    /\ Len(req.resp.body) = 1
    /\ \E t \in tasks : t.owner_id # req.current_user.id

\* ---------------------------------------------------------------------
\* Token round trips: create_access_token called at one instant and
\* decode_access_token at the same or a later one (SpecToken)
\* ---------------------------------------------------------------------

\* expires_delta arguments in ticks; 0 is the absent (or zero) timedelta
Lifetimes == {0, 1, TicksPerSecond, DefaultLifetime}

\* the lifetime create_access_token adds to the issuance time
Lifetime(expires_delta) ==
    IF expires_delta # 0 THEN expires_delta ELSE DefaultLifetime

\* instants of interest: around issuance and around the default expiry
Instants ==
    (0..(TicksPerSecond + 1))
      \cup ((DefaultLifetime - 1)..(DefaultLifetime + 2 * TicksPerSecond + 1))

Subjects == Emails \cup {""}

InitToken == Init

\* time passes between two calls
TokenTick ==
    /\ \E t \in Instants : t > now /\ now' = t
    /\ UNCHANGED <<users, tasks, nextTaskId, req, call, regs>>

\* create_access_token(data={"sub": sub}, expires_delta)
IssueToken ==
    /\ \E sub \in Subjects, expires_delta \in Lifetimes :
         call' = [fn |-> "create_access_token", sub |-> sub,
                  expires_delta |-> expires_delta, issued_at |-> now,
                  token |-> create_access_token(sub, expires_delta, now),
                  validated_at |-> now, result |-> None]
    /\ UNCHANGED <<users, tasks, nextTaskId, now, req, regs>>

\* decode_access_token(token) on the token issued last
DecodeToken ==
    /\ call.fn # ""
    /\ call' = [call EXCEPT !.fn = "decode_access_token",
                            !.validated_at = now,
                            !.result = decode_access_token(call.token, now)]
    /\ UNCHANGED <<users, tasks, nextTaskId, now, req, regs>>

NextToken == TokenTick \/ IssueToken \/ DecodeToken

SpecToken == InitToken /\ [][NextToken]_vars

\* C12: an issued token decoded at any instant after its expiry timestamp
\* (issuance time plus lifetime) gives None, although its signature is right.
C12_ExpiredRefused ==
    (/\ call.fn = "decode_access_token"
     /\ call.validated_at > call.issued_at + Lifetime(call.expires_delta))
       => call.result = None

\* C13: decode_access_token(create_access_token({"sub": s}, lifetime)) is s
\* when decoded at the instant of issuance, for every subject and every
\* lifetime > 0, the default lifetime included.
C13_RoundTrip ==
    (/\ call.fn = "decode_access_token"
     /\ call.validated_at = call.issued_at)
       => call.result = call.sub

\* a token with a lifetime below one second, issued within a second, was
\* decoded at once
C13_Witness ==
    /\ call.fn = "decode_access_token"
    /\ call.validated_at = call.issued_at
    /\ call.expires_delta = 1
    /\ call.issued_at % TicksPerSecond = 1
    /\ call.result = call.sub /\ call.sub \in Emails

\* ---------------------------------------------------------------------
\* Passwords around bcrypt's input ceiling and stored strings that are no
\* hash: get_password_hash and verify_password called directly, and
\* registration and login with such passwords (SpecHash)
\* ---------------------------------------------------------------------

Pad(n) == [i \in 1..n |-> 1]

\* two passwords of 73 bytes with the same first 72, those 72 bytes, and
\* another password of 72 bytes
LongPasswords ==
    {Pad(BCRYPT_MAX_BYTES) \o <<2>>, Pad(BCRYPT_MAX_BYTES) \o <<3>>,
     Pad(BCRYPT_MAX_BYTES), Pad(BCRYPT_MAX_BYTES - 1) \o <<2>>}

Salts == {1, 2}

InitHash == Init

RegisterLong == RegisterWith(LongPasswords)

LoginLong == LoginWith(LongPasswords)

\* get_password_hash(password)
HashPassword ==
    /\ \E password \in LongPasswords, salt \in Salts :
         call' = [fn |-> "get_password_hash", password |-> password,
                  hashed |-> get_password_hash(password, salt),
                  plain |-> <<>>, stored |-> bcrypt_hash(<<>>, 0),
                  backend |-> "", result |-> None]
    /\ UNCHANGED <<users, tasks, nextTaskId, now, req, regs>>

\* verify_password(plain, stored), stored being the hash made last or a
\* string that is no hash
VerifyPassword ==
    /\ call.fn # ""
    /\ \E plain \in LongPasswords, backend \in Backends,
           stored \in {call.hashed} \cup MalformedHashes :
         call' = [call EXCEPT !.fn = "verify_password", !.plain = plain,
                              !.stored = stored, !.backend = backend,
                              !.result = verify_password(plain, stored,
                                                         backend)]
    /\ UNCHANGED <<users, tasks, nextTaskId, now, req, regs>>

NextHash ==
    RegisterLong \/ LoginLong \/ CloseSession \/ HashPassword
      \/ VerifyPassword

SpecHash == InitHash /\ [][NextHash]_vars

\* the first 72 bytes of a password
Truncation(password) ==
    SubSeq(password, 1,
           IF Len(password) < BCRYPT_MAX_BYTES
           THEN Len(password) ELSE BCRYPT_MAX_BYTES)

\* C15: a password and its first 72 bytes are the same input to hashing and
\* verifying: verify_password(p, get_password_hash(q)) returns true whenever
\* p and q have the same first 72 bytes, and a login with a password whose
\* first 72 bytes are those of the password the account was registered with
\* gets a token.
C15_TruncationEquivalent ==
    /\ (/\ call.fn = "verify_password"
        /\ call.stored = call.hashed
        /\ Truncation(call.plain) = Truncation(call.password))
          => call.result = Return(TRUE)
    /\ (/\ req.stage = "Responded" /\ req.op = "login"
        /\ \E u \in users :
              /\ u.email = req.payload.username
              /\ u.hashed_password.digest = Truncation(req.payload.password))
          => req.resp.code = 200

\* C16: verify_password returns false and raises nothing when the stored
\* string is no well-formed hash.
C16_MalformedHashIsFalse ==
    (call.fn = "verify_password" /\ call.stored \in MalformedHashes)
       => call.result = Return(FALSE)

\* ---------------------------------------------------------------------
\* Concurrent registrations: every request runs create_user in a session
\* of its own, and the requests interleave at the awaits of the existence
\* check and of the commit (SpecReg)
\* ---------------------------------------------------------------------

Procs == {1, 2}

NoReg == [pc |-> "idle", email |-> None, password |-> <<>>,
          resp |-> NoResponse]

InitReg ==
    /\ users = {}
    /\ tasks = {}
    /\ nextTaskId = 1
    /\ now = 0
    /\ req = NoRequest
    /\ call = NoCall
    /\ regs = [p \in Procs |-> NoReg]

\* POST /auth/register arrives
RegStart(p) ==
    /\ regs[p].pc = "idle"
    /\ \E email \in Emails, password \in Passwords :
         regs' = [regs EXCEPT ![p] = [pc |-> "check", email |-> email,
                                      password |-> password,
                                      resp |-> NoResponse]]
    /\ UNCHANGED <<users, tasks, nextTaskId, now, req, call>>

\* create_user: existing_user = await get_user_by_email(...), 409 if found
RegCheck(p) ==
    /\ regs[p].pc = "check"
    /\ regs' = [regs EXCEPT ![p] =
                  IF get_user_by_email(users, regs[p].email) # NoUser
                  THEN [@ EXCEPT !.pc = "done",
                          !.resp = ExceptionResponse(
                             Raise(409,
                                   "A user with this email already exists.",
                                   ""))]
                  ELSE [@ EXCEPT !.pc = "insert"]]
    /\ UNCHANGED <<users, tasks, nextTaskId, now, req, call>>

\* create_user: hash, session.add, await session.commit(); the unique index
\* on user.email makes the commit fail with IntegrityError, which nothing
\* catches, when the email has been stored meanwhile
RegInsert(p) ==
    /\ regs[p].pc = "insert"
    /\ LET db_user == [id |-> Cardinality(users) + 1,
                       email |-> regs[p].email,
                       hashed_password |->
                          get_password_hash(regs[p].password, FreshSalt(users)),
                       is_active |-> TRUE]
       IN IF \E u \in users : u.email = regs[p].email
          THEN /\ users' = users
               /\ regs' = [regs EXCEPT ![p] =
                             [@ EXCEPT !.pc = "done",
                                !.resp = ExceptionResponse(UnhandledError)]]
          ELSE /\ users' = users \cup {db_user}
               /\ regs' = [regs EXCEPT ![p] =
                             [@ EXCEPT !.pc = "done",
                                !.resp = Response(201, "", "",
                                                  <<UserRead(db_user)>>)]]
    /\ UNCHANGED <<tasks, nextTaskId, now, req, call>>

\* the response is out and the session closed
RegClose(p) ==
    /\ regs[p].pc = "done"
    /\ regs' = [regs EXCEPT ![p] = NoReg]
    /\ UNCHANGED <<users, tasks, nextTaskId, now, req, call>>

NextReg ==
    \E p \in Procs : RegStart(p) \/ RegCheck(p) \/ RegInsert(p) \/ RegClose(p)

SpecReg == InitReg /\ [][NextReg]_vars

\* C17: however registrations for one email interleave, no two accounts have
\* the same email, and every registration ends in 201 with the created
\* account or in 409.
C17_ConcurrentRegistration ==
    /\ \A u1, u2 \in users : u1.email = u2.email => u1 = u2
    /\ \A p \in Procs :
          regs[p].pc = "done" =>
             \/ /\ regs[p].resp.code = 201
                /\ \E u \in users : regs[p].resp.body = <<UserRead(u)>>
             \/ regs[p].resp =
                   Response(409, "A user with this email already exists.",
                            "", <<>>)
====
